---- MODULE Spec2Model ----
(***************************************************************************)
(* rural_urban_pop_by_dept.py: zonal sums of rural and urban population    *)
(* per municipio and per Landscan year, written to rural_urban_pop.csv.    *)
(*                                                                         *)
(* Strings are sequences of one-character strings, so that glob matching,  *)
(* lexical sorting and str.split are computed character by character.      *)
(***************************************************************************)
EXTENDS Integers, Sequences, FiniteSets, TLC

VARIABLES
    pc,            \* position of main()
    scope,         \* which family of file systems the run is given
    fs_files,      \* file system: paths of the files under data/, once listed
    fs_zones,      \* file system: the features of data/GTM_adm2.shp, once read
    fs_mask,       \* file system: the band of data/rural.tif, once read
    fs_pop,        \* file system: the band of each data/lspop*/hdr.adf read so far
    csv_before,    \* file system: the lines of rural_urban_pop.csv before the run
    csv_file,      \* file system: the lines of rural_urban_pop.csv
    open_handles,  \* the file handles currently open
    clip_box,      \* main(): clip_box
    features,      \* main(): features
    r_img,         \* main(): r_img
    pop_rasters,   \* main(): pop_rasters
    idx,           \* main(): number of loop iterations started
    pop_raster,    \* main(): pop_raster
    p_img,         \* main(): p_img
    rural_pop,     \* main(): rural_pop
    urban_pop,     \* main(): urban_pop
    rural_stats,   \* main(): rural_stats
    urban_stats,   \* main(): urban_stats
    year,          \* main(): year
    output,        \* main(): output
    fail_pc,       \* history: where an error was raised ("none" if none)
    dst_opens,     \* history: number of times the CSV file was opened
    header_writes  \* history: number of header rows written

fsVars   == <<scope, fs_files, fs_zones, fs_mask, fs_pop, csv_before>>
loadVars == <<clip_box, features, r_img>>
loopVars == <<pop_rasters, idx, pop_raster>>
yearVars == <<p_img, rural_pop, urban_pop, rural_stats, urban_stats, year, output>>
histVars == <<dst_opens, header_writes>>
vars == <<pc, fsVars, csv_file, open_handles, loadVars, loopVars, yearVars,
          fail_pc, histVars>>

----------------------------------------------------------------------------
(* Bounds of the model *)

MaxChunks == 2
MaxDirs == 1
MaxZones == 2

Pixels == {<<0, 0>>, <<0, 1>>}
MaskValues == {0, 1, 2, 3}
PopValues == {0, 2}

----------------------------------------------------------------------------
(* Strings *)

pop_dir == <<"d", "a", "t", "a", "/">>
rural_region == pop_dir \o <<"r", "u", "r", "a", "l", ".", "t", "i", "f">>
S_lspop == <<"l", "s", "p", "o", "p">>
S_hdr_adf == <<"/", "h", "d", "r", ".", "a", "d", "f">>
S_dblbnd_adf == <<"/", "d", "b", "l", "b", "n", "d", ".", "a", "d", "f">>

\* The characters of the model in code point order.
CodePoints == <<".", "/", "1", "9", "a", "b", "d", "f", "h", "i", "l", "n",
                "o", "p", "r", "s", "t", "u">>

Ord(c) == CHOOSE k \in 1..Len(CodePoints) : CodePoints[k] = c

Min2(a, b) == IF a <= b THEN a ELSE b

\* Python's str "<": the first differing character decides, a proper prefix
\* is smaller.
StrLess(a, b) ==
    \E k \in 1..(Min2(Len(a), Len(b)) + 1) :
        /\ \A j \in 1..(k - 1) : a[j] = b[j]
        /\ \/ k > Len(a) /\ k <= Len(b)
           \/ k <= Len(a) /\ k <= Len(b) /\ Ord(a[k]) < Ord(b[k])

IsAt(s, sep, k) ==
    /\ k + Len(sep) - 1 <= Len(s)
    /\ SubSeq(s, k, k + Len(sep) - 1) = sep

\* str.find + 1: position of the first occurrence of sep in s, 0 if none.
Find(s, sep) ==
    IF \E k \in 1..Len(s) : IsAt(s, sep, k)
    THEN CHOOSE k \in 1..Len(s) :
             IsAt(s, sep, k) /\ \A j \in 1..(k - 1) : ~IsAt(s, sep, j)
    ELSE 0

\* s.split(sep, 1)[1]
SplitOnceTail(s, sep) == SubSeq(s, Find(s, sep) + Len(sep), Len(s))

\* s.split(sep)[0]
SplitHead(s, sep) ==
    IF Find(s, sep) = 0 THEN s ELSE SubSeq(s, 1, Find(s, sep) - 1)

----------------------------------------------------------------------------
(* Raster discovery *)

RasterPath(x) == pop_dir \o S_lspop \o x \o S_hdr_adf

\* fnmatch of pop_dir + "lspop*/hdr.adf": "*" matches any run of characters
\* other than "/".
Matches(f) ==
    LET pre == pop_dir \o S_lspop
        n == Len(f) - Len(pre) - Len(S_hdr_adf)
    IN /\ n >= 0
       /\ SubSeq(f, 1, Len(pre)) = pre
       /\ SubSeq(f, Len(f) - Len(S_hdr_adf) + 1, Len(f)) = S_hdr_adf
       /\ \A k \in (Len(pre) + 1)..(Len(pre) + n) : f[k] # "/"

\* Variant: every file under data/ is returned, matching or not.
glob_all(files) == files

glob(files) == {f \in files : Matches(f)}

RECURSIVE sorted(_)
sorted(S) ==
    IF S = {} THEN <<>>
    ELSE LET m == CHOOSE x \in S : \A y \in S \ {x} : StrLess(x, y)
         IN <<m>> \o sorted(S \ {m})

get_pop_rasters(files) == sorted(glob(files))

\* str.rfind + 1: position of the last occurrence of sep in s, 0 if none.
FindLast(s, sep) ==
    IF \E k \in 1..Len(s) : IsAt(s, sep, k)
    THEN CHOOSE k \in 1..Len(s) :
             IsAt(s, sep, k) /\ \A j \in (k + 1)..Len(s) : ~IsAt(s, sep, j)
    ELSE 0

\* Variant: the path split at the last "lspop" (rsplit) instead of the first.
ExtractYear_rsplit(path) ==
    SplitHead(SubSeq(path, FindLast(path, S_lspop) + Len(S_lspop), Len(path)),
              S_hdr_adf)

ExtractYear(path) == SplitHead(SplitOnceTail(path, S_lspop), S_hdr_adf)

----------------------------------------------------------------------------
(* Arrays and zonal statistics *)

\* rasterio.mask.mask(src, shapes, crop=True): the bands of src restricted to
\* the pixels the shapes cover.
mask(band, shapes) ==
    <<[p \in {q \in DOMAIN band : \E k \in 1..Len(shapes) : q \in shapes[k]}
          |-> band[p]]>>

\* Variant: the comparison img >= v in place of img == v.
ArrEq_ge(img, v) ==
    [b \in DOMAIN img |-> [p \in DOMAIN img[b] |-> img[b][p] >= v]]

\* img == v, elementwise
ArrEq(img, v) ==
    [b \in DOMAIN img |-> [p \in DOMAIN img[b] |-> img[b][p] = v]]

\* Variant: the two value arguments of np.where exchanged.
where_swapped(cond, x, y) ==
    [b \in DOMAIN cond |->
        [p \in DOMAIN cond[b] |-> IF cond[b][p] THEN y ELSE x[b][p]]]

\* np.where(cond, x, y) with an array x and a scalar y
where(cond, x, y) ==
    [b \in DOMAIN cond |->
        [p \in DOMAIN cond[b] |-> IF cond[b][p] THEN x[b][p] ELSE y]]

RECURSIVE SumOver(_, _)
SumOver(S, f) ==
    IF S = {} THEN 0
    ELSE LET p == CHOOSE q \in S : TRUE IN f[p] + SumOver(S \ {p}, f)

None == [none |-> TRUE, value |-> 0]
Number(n) == [none |-> FALSE, value |-> n]

\* rasterstats.zonal_stats(vectors, band, stats=['sum']): one dictionary per
\* feature, in the order of the features; the sum is None for a feature
\* that covers no pixel of the band.
zonal_stats(vectors, band) ==
    [k \in 1..Len(vectors) |->
        LET zone == vectors[k].geometry \cap DOMAIN band
        IN [sum |-> IF zone = {} THEN None ELSE Number(SumOver(zone, band))]]

\* Variant: the statistics paired with the zones in reverse order.
BuildOutput_reversed(fs, rss, uss, y) ==
    [k \in 1..Min2(Len(fs), Min2(Len(rss), Len(uss))) |->
        [id |-> fs[k].properties.ID_2,
         name |-> fs[k].properties.NAME_2,
         year |-> y,
         rural_pop |-> rss[Len(rss) + 1 - k].sum,
         urban_pop |-> uss[Len(uss) + 1 - k].sum]]

\* zip(features, rural_stats, urban_stats) and the body of the loop over it
BuildOutput(fs, rss, uss, y) ==
    [k \in 1..Min2(Len(fs), Min2(Len(rss), Len(uss))) |->
        [id |-> fs[k].properties.ID_2,
         name |-> fs[k].properties.NAME_2,
         year |-> y,
         rural_pop |-> rss[k].sum,
         urban_pop |-> uss[k].sum]]

\* csv.DictWriter: the cells of a line follow the field names
fieldnames == <<"id", "name", "year", "rural_pop", "urban_pop">>
HeaderLine == [kind |-> "header", cells |-> fieldnames]
RowLine(t) ==
    [kind |-> "row",
     cells |-> <<t.id, t.name, t.year, t.rural_pop, t.urban_pop>>]
writerows(lines, rows) == lines \o [k \in 1..Len(rows) |-> RowLine(rows[k])]

----------------------------------------------------------------------------
(* The inputs: file systems the program is run on *)

Chunks == {<<"9">>, S_lspop, <<"h", "d", "r", ".", "a", "d", "f">>}

RECURSIVE TokensOf(_)
TokensOf(n) ==
    IF n = 0 THEN {<<>>}
    ELSE LET T == TokensOf(n - 1) IN T \cup {t \o c : t \in T, c \in Chunks}

RECURSIVE SetsUpTo(_, _)
SetsUpTo(T, n) ==
    IF n = 0 THEN {{}}
    ELSE LET P == SetsUpTo(T, n - 1) IN P \cup {s \cup {t} : s \in P, t \in T}

\* Directory names lspop<x>: any text, and years of different widths.
Tokens == TokensOf(MaxChunks)
YearTokens == {<<"9">>, <<"1", "9">>}

FilesOf(D) ==
    {rural_region}
        \cup {RasterPath(x) : x \in D}
        \cup {pop_dir \o S_lspop \o x \o S_dblbnd_adf : x \in D}

Zone(k, g) ==
    [properties |-> [ID_2 |-> 100 + k, NAME_2 |-> <<"municipio", k>>],
     geometry |-> g]

ZoneLists ==
    UNION {{[k \in 1..n |-> Zone(k, g[k])] : g \in [1..n -> SUBSET Pixels]} :
              n \in 0..MaxZones}

MaskGrids == [Pixels -> MaskValues]
PopGrids == [Pixels -> PopValues]

\* The file systems main() is run on. In scope "names" the directories
\* lspop<x> carry any text and the zones, mask and rasters are one fixed data
\* set; in scope "data" the zones, the mask and the rasters are arbitrary
\* and the directories carry years of different widths.
Scopes == {"names", "data"}

ZoneInputs(sc) == IF sc = "names" THEN {<<Zone(1, Pixels)>>} ELSE ZoneLists
MaskInputs(sc) == IF sc = "names" THEN {[p \in Pixels |-> 1]} ELSE MaskGrids
PopInputs(sc) == IF sc = "names" THEN {[p \in Pixels |-> 2]} ELSE PopGrids
DirInputs(sc) ==
    IF sc = "names" THEN SetsUpTo(Tokens, MaxDirs) ELSE SUBSET YearTokens

StaleLine == [kind |-> "stale", cells |-> <<>>]

\* data/ca_boundingbox.shp: one box, covering the study site
boundingbox == <<[geometry |-> Pixels]>>

----------------------------------------------------------------------------
(* main() *)

Init ==
    /\ pc = "open_boundingbox"
    /\ scope \in Scopes
    /\ fs_files = {}
    /\ fs_zones = <<>>
    /\ fs_mask = <<>>
    /\ fs_pop = <<>>
    /\ csv_before \in {<<>>, <<StaleLine>>}
    /\ csv_file = csv_before
    /\ open_handles = {}
    /\ clip_box = <<>>
    /\ features = <<>>
    /\ r_img = <<>>
    /\ pop_rasters = <<>>
    /\ idx = 0
    /\ pop_raster = <<>>
    /\ p_img = <<>>
    /\ rural_pop = <<>>
    /\ urban_pop = <<>>
    /\ rural_stats = <<>>
    /\ urban_stats = <<>>
    /\ year = <<>>
    /\ output = <<>>
    /\ fail_pc = "none"
    /\ dst_opens = 0
    /\ header_writes = 0

\* with fiona.open("data/ca_boundingbox.shp", "r") as boundingbox:
OpenBoundingBox ==
    /\ pc = "open_boundingbox"
    /\ open_handles' = open_handles \cup {"boundingbox"}
    /\ pc' = "read_boundingbox"
    /\ UNCHANGED <<fsVars, csv_file, loadVars, loopVars, yearVars, fail_pc, histVars>>

\* clip_box = [box["geometry"] for box in boundingbox]
ReadClipBox ==
    /\ pc = "read_boundingbox"
    /\ clip_box' = [k \in 1..Len(boundingbox) |-> boundingbox[k].geometry]
    /\ pc' = "close_boundingbox"
    /\ UNCHANGED <<fsVars, csv_file, open_handles, features, r_img, loopVars,
                   yearVars, fail_pc, histVars>>

CloseBoundingBox ==
    /\ pc = "close_boundingbox"
    /\ open_handles' = open_handles \ {"boundingbox"}
    /\ pc' = "open_zones"
    /\ UNCHANGED <<fsVars, csv_file, loadVars, loopVars, yearVars, fail_pc, histVars>>

\* with fiona.open(zones) as z_src:
OpenZones ==
    /\ pc = "open_zones"
    /\ open_handles' = open_handles \cup {"z_src"}
    /\ pc' = "read_zones"
    /\ UNCHANGED <<fsVars, csv_file, loadVars, loopVars, yearVars, fail_pc, histVars>>

\* features = list(z_src)
ReadFeatures ==
    /\ pc = "read_zones"
    /\ \E z \in ZoneInputs(scope) :
        /\ fs_zones' = z
        /\ features' = z
    /\ pc' = "close_zones"
    /\ UNCHANGED <<scope, fs_files, fs_mask, fs_pop, csv_before, csv_file,
                   open_handles, clip_box, r_img, loopVars, yearVars, fail_pc,
                   histVars>>

CloseZones ==
    /\ pc = "close_zones"
    /\ open_handles' = open_handles \ {"z_src"}
    /\ pc' = "open_rural"
    /\ UNCHANGED <<fsVars, csv_file, loadVars, loopVars, yearVars, fail_pc, histVars>>

\* with rasterio.open(rural_region) as rural:
OpenRural ==
    /\ pc = "open_rural"
    /\ open_handles' = open_handles \cup {"rural"}
    /\ pc' = "mask_rural"
    /\ UNCHANGED <<fsVars, csv_file, loadVars, loopVars, yearVars, fail_pc, histVars>>

\* r_img, r_transform = mask(rural, clip_box, crop=True)
MaskRural ==
    /\ pc = "mask_rural"
    /\ \E m \in MaskInputs(scope) :
        /\ fs_mask' = m
        /\ r_img' = mask(m, clip_box)
    /\ pc' = "close_rural"
    /\ UNCHANGED <<scope, fs_files, fs_zones, fs_pop, csv_before, csv_file,
                   open_handles, clip_box, features, loopVars, yearVars, fail_pc,
                   histVars>>

CloseRural ==
    /\ pc = "close_rural"
    /\ open_handles' = open_handles \ {"rural"}
    /\ pc' = "open_csv"
    /\ UNCHANGED <<fsVars, csv_file, loadVars, loopVars, yearVars, fail_pc, histVars>>

\* Variant: the file opened in append mode ('a'), which keeps its lines.
OpenCsv_append ==
    /\ pc = "open_csv"
    /\ csv_file' = csv_file
    /\ open_handles' = open_handles \cup {"dst"}
    /\ dst_opens' = dst_opens + 1
    /\ pc' = "writeheader"
    /\ UNCHANGED <<fsVars, loadVars, loopVars, yearVars, fail_pc, header_writes>>

\* with open("rural_urban_pop.csv", 'w') as dst:
OpenCsv ==
    /\ pc = "open_csv"
    /\ csv_file' = <<>>
    /\ open_handles' = open_handles \cup {"dst"}
    /\ dst_opens' = dst_opens + 1
    /\ pc' = "writeheader"
    /\ UNCHANGED <<fsVars, loadVars, loopVars, yearVars, fail_pc, header_writes>>

\* w = csv.DictWriter(dst, [...]); w.writeheader()
WriteHeader ==
    /\ pc = "writeheader"
    /\ csv_file' = Append(csv_file, HeaderLine)
    /\ header_writes' = header_writes + 1
    /\ pc' = "get_pop_rasters"
    /\ UNCHANGED <<fsVars, open_handles, loadVars, loopVars, yearVars, fail_pc,
                   dst_opens>>

\* pop_rasters = get_pop_rasters()
GetPopRasters ==
    /\ pc = "get_pop_rasters"
    /\ \E D \in DirInputs(scope) :
        /\ fs_files' = FilesOf(D)
        /\ pop_rasters' = get_pop_rasters(FilesOf(D))
    /\ pc' = "for"
    /\ UNCHANGED <<scope, fs_zones, fs_mask, fs_pop, csv_before, csv_file,
                   open_handles, loadVars, idx, pop_raster, yearVars, fail_pc,
                   histVars>>

\* for pop_raster in pop_rasters: the next raster
ForNext ==
    /\ pc = "for"
    /\ idx < Len(pop_rasters)
    /\ idx' = idx + 1
    /\ pop_raster' = pop_rasters[idx + 1]
    /\ pc' = "open_pop"
    /\ UNCHANGED <<fsVars, csv_file, open_handles, loadVars, pop_rasters,
                   yearVars, fail_pc, histVars>>

\* for pop_raster in pop_rasters: the list is exhausted; leave the with block
\* of the CSV file
ForDone ==
    /\ pc = "for"
    /\ idx = Len(pop_rasters)
    /\ open_handles' = open_handles \ {"dst"}
    /\ pc' = "done"
    /\ UNCHANGED <<fsVars, csv_file, loadVars, loopVars, yearVars, fail_pc, histVars>>

\* with rasterio.open(pop_raster) as pop:
OpenPop ==
    /\ pc = "open_pop"
    /\ open_handles' = open_handles \cup {"pop"}
    /\ pc' = "mask_pop"
    /\ UNCHANGED <<fsVars, csv_file, loadVars, loopVars, yearVars, fail_pc, histVars>>

\* p_img, p_transform = mask(pop, clip_box, crop=True)
MaskPop ==
    /\ pc = "mask_pop"
    /\ \E g \in PopInputs(scope) :
        /\ fs_pop' = fs_pop @@ (pop_raster :> g)
        /\ p_img' = mask(g, clip_box)
    /\ pc' = "where_rural"
    /\ UNCHANGED <<scope, fs_files, fs_zones, fs_mask, csv_before, csv_file,
                   open_handles, loadVars, loopVars, rural_pop, urban_pop,
                   rural_stats, urban_stats, year, output, fail_pc, histVars>>

\* rural_pop = np.where(r_img == 1, p_img, 0)
WhereRural ==
    /\ pc = "where_rural"
    /\ rural_pop' = where(ArrEq(r_img, 1), p_img, 0)
    /\ pc' = "where_urban"
    /\ UNCHANGED <<fsVars, csv_file, open_handles, loadVars, loopVars, p_img,
                   urban_pop, rural_stats, urban_stats, year, output, fail_pc,
                   histVars>>

\* urban_pop = np.where(r_img == 0, p_img, 0)
WhereUrban ==
    /\ pc = "where_urban"
    /\ urban_pop' = where(ArrEq(r_img, 0), p_img, 0)
    /\ pc' = "zonal_rural"
    /\ UNCHANGED <<fsVars, csv_file, open_handles, loadVars, loopVars, p_img,
                   rural_pop, rural_stats, urban_stats, year, output, fail_pc,
                   histVars>>

\* rural_stats = zonal_stats(features, rural_pop[0], ...)
ZonalRural ==
    /\ pc = "zonal_rural"
    /\ rural_stats' = zonal_stats(features, rural_pop[1])
    /\ pc' = "zonal_urban"
    /\ UNCHANGED <<fsVars, csv_file, open_handles, loadVars, loopVars, p_img,
                   rural_pop, urban_pop, urban_stats, year, output, fail_pc,
                   histVars>>

\* urban_stats = zonal_stats(features, urban_pop[0], ...)
ZonalUrban ==
    /\ pc = "zonal_urban"
    /\ urban_stats' = zonal_stats(features, urban_pop[1])
    /\ pc' = "extract_year"
    /\ UNCHANGED <<fsVars, csv_file, open_handles, loadVars, loopVars, p_img,
                   rural_pop, urban_pop, rural_stats, year, output, fail_pc,
                   histVars>>

\* year = pop_raster.split("lspop", 1)[1].split("/hdr.adf")[0]
YearOfRaster ==
    /\ pc = "extract_year"
    /\ year' = ExtractYear(pop_raster)
    /\ pc' = "build_output"
    /\ UNCHANGED <<fsVars, csv_file, open_handles, loadVars, loopVars, p_img,
                   rural_pop, urban_pop, rural_stats, urban_stats, output,
                   fail_pc, histVars>>

\* Variant: w.writerows(output) indented into the with block of the raster,
\* so that the raster is still open when the rows are written.
OutputAndClosePop_inside ==
    /\ pc = "build_output"
    /\ output' = BuildOutput(features, rural_stats, urban_stats, year)
    /\ open_handles' = open_handles
    /\ pc' = "writerows"
    /\ UNCHANGED <<fsVars, csv_file, loadVars, loopVars, p_img, rural_pop,
                   urban_pop, rural_stats, urban_stats, year, fail_pc, histVars>>

\* output = []; for f, rs, us in zip(...): ... output.append(t); then the
\* with block of the population raster is left
OutputAndClosePop ==
    /\ pc = "build_output"
    /\ output' = BuildOutput(features, rural_stats, urban_stats, year)
    /\ open_handles' = open_handles \ {"pop"}
    /\ pc' = "writerows"
    /\ UNCHANGED <<fsVars, csv_file, loadVars, loopVars, p_img, rural_pop,
                   urban_pop, rural_stats, urban_stats, year, fail_pc, histVars>>

\* w.writerows(output)
WriteRows ==
    /\ pc = "writerows"
    /\ csv_file' = writerows(csv_file, output)
    /\ pc' = "for"
    /\ UNCHANGED <<fsVars, open_handles, loadVars, loopVars, yearVars, fail_pc,
                   histVars>>

\* The statements that read a file and may raise.
FailPcs == {"open_boundingbox", "read_boundingbox", "open_zones", "read_zones",
            "open_rural", "mask_rural", "open_csv", "open_pop", "mask_pop"}

\* Variant: an error on a population raster is caught inside the loop, the
\* raster is skipped and the loop goes on.
Raise_skip ==
    /\ pc \in FailPcs
    /\ fail_pc' = pc
    /\ IF pc \in {"open_pop", "mask_pop"}
       THEN open_handles' = open_handles \ {"pop"} /\ pc' = "for"
       ELSE open_handles' = {} /\ pc' = "aborted"
    /\ UNCHANGED <<fsVars, csv_file, loadVars, loopVars, yearVars, histVars>>

\* An error raised by fiona, rasterio or open() is not caught: it leaves
\* every enclosing with block, which closes its handle, and ends main().
Raise ==
    /\ pc \in FailPcs
    /\ fail_pc' = pc
    /\ open_handles' = {}
    /\ pc' = "aborted"
    /\ UNCHANGED <<fsVars, csv_file, loadVars, loopVars, yearVars, histVars>>

Next ==
    \/ OpenBoundingBox \/ ReadClipBox \/ CloseBoundingBox
    \/ OpenZones \/ ReadFeatures \/ CloseZones
    \/ OpenRural \/ MaskRural \/ CloseRural
    \/ OpenCsv \/ WriteHeader \/ GetPopRasters
    \/ ForNext \/ ForDone
    \/ OpenPop \/ MaskPop \/ WhereRural \/ WhereUrban
    \/ ZonalRural \/ ZonalUrban \/ YearOfRaster
    \/ OutputAndClosePop \/ WriteRows
    \/ Raise

Spec == Init /\ [][Next]_vars

----------------------------------------------------------------------------
(* Properties *)

\* The positions at which the grids of the current year are built.
GridsBuilt == {"zonal_rural", "zonal_urban", "extract_year", "build_output",
               "writerows"}

\* The rows of the current year have been written.
Written == pc \in {"for", "done"} /\ idx >= 1

\* The line of the last batch written for the k-th zone.
LastBatch(k) == csv_file[1 + (idx - 1) * Len(features) + k]

\* The pixels of the k-th zone.
ZonePixels(k) == features[k].geometry \cap Pixels

\* C10: in every year's grids, a pixel of the rural grid holds the
\* population exactly where the mask is 1 and 0 elsewhere, a pixel of the
\* urban grid holds it exactly where the mask is 0 and 0 elsewhere; no pixel
\* is counted in both grids and a pixel whose mask is neither 0 nor 1 is 0
\* in both, so it adds nothing to either sum of a zone.
C10_GridsSplitByMask ==
    /\ pc \in GridsBuilt =>
        /\ DOMAIN rural_pop[1] = DOMAIN p_img[1]
        /\ DOMAIN urban_pop[1] = DOMAIN p_img[1]
        /\ \A p \in DOMAIN p_img[1] :
            /\ rural_pop[1][p] = IF r_img[1][p] = 1 THEN p_img[1][p] ELSE 0
            /\ urban_pop[1][p] = IF r_img[1][p] = 0 THEN p_img[1][p] ELSE 0
            /\ rural_pop[1][p] = 0 \/ urban_pop[1][p] = 0
            /\ r_img[1][p] \notin {0, 1} =>
                  rural_pop[1][p] = 0 /\ urban_pop[1][p] = 0
    /\ pc \in {"extract_year", "build_output", "writerows"} =>
        \A k \in 1..Len(features) :
            /\ rural_stats[k].sum.value =
                  SumOver({p \in ZonePixels(k) : r_img[1][p] = 1}, p_img[1])
            /\ urban_stats[k].sum.value =
                  SumOver({p \in ZonePixels(k) : r_img[1][p] = 0}, p_img[1])

C10_Witness ==
    /\ pc = "writerows"
    /\ \E p, q \in Pixels :
        /\ r_img[1][p] = 3 /\ p_img[1][p] > 0
        /\ r_img[1][q] = 1 /\ p_img[1][q] > 0
    /\ \E k \in 1..Len(features) : ZonePixels(k) = Pixels

\* The sum zonal statistics report for a feature over a band.
ZoneSumOf(f, band) ==
    LET z == f.geometry \cap DOMAIN band
    IN IF z = {} THEN None ELSE Number(SumOver(z, band))

\* C2: the records built for a raster are one per zone feature, in the order
\* of the feature list, and the i-th record holds the i-th zone's ID_2 and
\* NAME_2 with the rural and the urban sum of that same zone.
C2_OneRecordPerZoneInOrder ==
    pc = "writerows" =>
        /\ Len(output) = Len(features)
        /\ Len(rural_stats) = Len(features)
        /\ Len(urban_stats) = Len(features)
        /\ \A k \in 1..Len(features) :
            /\ output[k].id = features[k].properties.ID_2
            /\ output[k].name = features[k].properties.NAME_2
            /\ output[k].rural_pop = rural_stats[k].sum
            /\ output[k].urban_pop = urban_stats[k].sum
            /\ output[k].rural_pop = ZoneSumOf(features[k], rural_pop[1])
            /\ output[k].urban_pop = ZoneSumOf(features[k], urban_pop[1])

C2_Witness ==
    /\ pc = "writerows"
    /\ Len(features) = 2
    /\ Len(output) = 2
    /\ output[1].rural_pop # output[2].rural_pop
    /\ output[1].urban_pop # output[2].urban_pop

\* Total population of the k-th zone over the pixels whose mask is 0 or 1.
ZoneTotal(k) ==
    SumOver({p \in ZonePixels(k) : r_img[1][p] \in {0, 1}}, p_img[1])

\* C3 as stated: for every zone and every year, rural_pop + urban_pop of the
\* written record is a number equal to the total population of the zone's
\* pixels whose mask is 0 or 1.
C3_SumIsTotalForEveryZone ==
    Written =>
        \A k \in 1..Len(features) :
            LET c == LastBatch(k).cells
            IN /\ ~c[4].none
               /\ ~c[5].none
               /\ c[4].value + c[5].value = ZoneTotal(k)

\* C3 amended: for every year and every zone that covers at least one pixel,
\* rural_pop + urban_pop of the written record equals the total population
\* of the zone's pixels whose mask is 0 or 1; for a zone that covers no
\* pixel both sums are None.
C3_SumIsTotalForCoveredZones ==
    Written =>
        \A k \in 1..Len(features) :
            LET c == LastBatch(k).cells
            IN IF ZonePixels(k) = {}
               THEN c[4] = None /\ c[5] = None
               ELSE /\ ~c[4].none
                    /\ ~c[5].none
                    /\ c[4].value + c[5].value = ZoneTotal(k)

C3_Witness ==
    /\ Written
    /\ \E k \in 1..Len(features) :
        /\ ZonePixels(k) = Pixels
        /\ \E p, q \in Pixels :
            /\ r_img[1][p] = 3 /\ p_img[1][p] > 0
            /\ r_img[1][q] \in {0, 1} /\ p_img[1][q] > 0
        /\ LastBatch(k).cells[4].value + LastBatch(k).cells[5].value > 0
    /\ \E k \in 1..Len(features) : ZonePixels(k) = {}

\* C8: for every discovered path data/lspop<X>/hdr.adf the year extracted,
\* and written in the rows of that raster, is exactly <X>, also when <X>
\* contains "lspop" or "hdr.adf".
C8_YearIsDirectorySuffix ==
    /\ pc \in {"build_output", "writerows"} => RasterPath(year) = pop_raster
    /\ \A n \in 1..Len(csv_file) :
          csv_file[n].kind = "row" =>
              RasterPath(csv_file[n].cells[3]) =
                  pop_rasters[((n - 2) \div Len(features)) + 1]

C8_Witness ==
    \E n \in 1..Len(csv_file) :
        /\ csv_file[n].kind = "row"
        /\ Find(csv_file[n].cells[3], S_lspop) > 0
        /\ Find(csv_file[n].cells[3], <<"h", "d", "r">>) > 0

----------------------------------------------------------------------------
(* The output file, as the file system determines it *)

\* The <X> of a path data/lspop<X>/hdr.adf.
TokenOf(path) ==
    SubSeq(path, Len(pop_dir) + Len(S_lspop) + 1, Len(path) - Len(S_hdr_adf))

\* The sum over the pixels of the k-th zone of the file whose mask is v, of
\* the population raster at path.
ExpectedSum(k, path, v) ==
    LET z == fs_zones[k].geometry \cap Pixels
    IN IF z = {} THEN None
       ELSE Number(SumOver({p \in z : fs_mask[p] = v}, fs_pop[path]))

\* The n-th line of the file, n >= 2: batches of one row per zone, in the
\* order of pop_rasters.
ExpectedLine(n) ==
    LET j == ((n - 2) \div Len(fs_zones)) + 1
        k == ((n - 2) % Len(fs_zones)) + 1
    IN [kind |-> "row",
        cells |-> <<fs_zones[k].properties.ID_2, fs_zones[k].properties.NAME_2,
                    TokenOf(pop_rasters[j]),
                    ExpectedSum(k, pop_rasters[j], 1),
                    ExpectedSum(k, pop_rasters[j], 0)>>]

\* The file holds the header and exactly the complete batches of the first
\* m rasters.
HoldsBatches(m) ==
    /\ Len(csv_file) = 1 + m * Len(fs_zones)
    /\ csv_file[1].kind = "header"
    /\ csv_file[1] = HeaderLine
    /\ \A n \in 2..Len(csv_file) :
        /\ csv_file[n].kind = "row"
        /\ csv_file[n] = ExpectedLine(n)

\* The number of rasters whose processing has finished.
BatchesDone == IF pc \in {"get_pop_rasters", "for", "done"} THEN idx ELSE idx - 1

PopFailPcs == {"open_pop", "mask_pop"}

NoMatch == \A f \in fs_files : ~Matches(f)

\* get_pop_rasters() has returned.
Discovered ==
    \/ pc \in {"for", "done", "open_pop", "mask_pop", "where_rural",
               "where_urban", "zonal_rural", "zonal_urban", "extract_year",
               "build_output", "writerows"}
    \/ pc = "aborted" /\ fail_pc \in PopFailPcs

\* C4: the output file is opened once, truncating it; the header is written
\* once and before any row; the rows of a year are appended in one batch, in
\* zone order, only when that year's aggregation has finished; no line of a
\* previous run survives.
C4_TruncatedHeaderThenBatches ==
    /\ dst_opens <= 1
    /\ header_writes <= 1
    /\ dst_opens = 0 => /\ csv_file = csv_before
                        /\ header_writes = 0
                        /\ pc \notin {"writeheader", "done"}
                        /\ ~Discovered
    /\ dst_opens = 1 =>
        /\ \A n \in 1..Len(csv_file) : csv_file[n].kind # "stale"
        /\ IF header_writes = 0
           THEN pc = "writeheader" /\ csv_file = <<>>
           ELSE HoldsBatches(BatchesDone)

C4_Witness ==
    /\ pc = "done"
    /\ csv_before # <<>>
    /\ Len(pop_rasters) = 2
    /\ Len(features) = 2
    /\ Len(csv_file) = 5

\* C5: when no path matches data/lspop*/hdr.adf, get_pop_rasters() returns
\* the empty list, nothing is raised, and main() ends normally with a file
\* that holds the header and no row.
C5_NoMatchHeaderOnly ==
    (NoMatch /\ Discovered) =>
        /\ pop_rasters = <<>>
        /\ fail_pc = "none"
        /\ pc \in {"for", "done"}
        /\ pc = "for" => ENABLED ForDone /\ ~ENABLED Raise /\ ~ENABLED ForNext
        /\ pc = "done" => csv_file = <<HeaderLine>> /\ open_handles = {}

C5_Witness ==
    /\ pc = "done"
    /\ NoMatch
    /\ fs_files # {}
    /\ Len(fs_zones) > 0
    /\ csv_before # <<>>
    /\ csv_file = <<HeaderLine>>

\* C6: an I/O failure on a year's population raster ends the run: no later
\* raster is processed, no row of the failing or of a later year is written,
\* and the file holds the header and exactly the complete batches of the
\* years before the failing one.
C6_FailureAbortsRun ==
    fail_pc \in PopFailPcs =>
        /\ pc = "aborted"
        /\ ~ENABLED Next
        /\ idx >= 1
        /\ pop_raster = pop_rasters[idx]
        /\ HoldsBatches(idx - 1)

C6_Witness ==
    /\ pc = "aborted"
    /\ fail_pc = "mask_pop"
    /\ idx = 2
    /\ Len(pop_rasters) = 2
    /\ Len(features) = 2
    /\ Len(csv_file) = 3

\* C9: at most one raster or vector handle is open at a time; the bounding
\* box, zone and land-use handles are open only around their own read, the
\* population raster handle only from its opening to the end of the year's
\* aggregation (not when the rows are written, nor when the next raster is
\* opened); when the run has ended, normally or by an error, no handle is
\* open, the CSV file included.
GeoHandles == {"boundingbox", "z_src", "rural", "pop"}

C9_HandlesScoped ==
    /\ Cardinality(open_handles \cap GeoHandles) <= 1
    /\ "boundingbox" \in open_handles <=>
          pc \in {"read_boundingbox", "close_boundingbox"}
    /\ "z_src" \in open_handles <=> pc \in {"read_zones", "close_zones"}
    /\ "rural" \in open_handles <=> pc \in {"mask_rural", "close_rural"}
    /\ "pop" \in open_handles <=>
          pc \in {"mask_pop", "where_rural", "where_urban", "zonal_rural",
                  "zonal_urban", "extract_year", "build_output"}
    /\ "dst" \in open_handles <=>
          pc \in {"writeheader", "get_pop_rasters", "for", "open_pop",
                  "mask_pop", "where_rural", "where_urban", "zonal_rural",
                  "zonal_urban", "extract_year", "build_output", "writerows"}
    /\ pc \in {"done", "aborted"} => open_handles = {}

C9_Witness ==
    /\ pc = "writerows"
    /\ idx = 2
    /\ open_handles = {"dst"}

\* The decimal value of a year token.
Digits == <<"0", "1", "2", "3", "4", "5", "6", "7", "8", "9">>
IsYear(t) == Len(t) > 0 /\ \A i \in 1..Len(t) : \E d \in 1..10 : Digits[d] = t[i]
RECURSIVE YearValue(_)
YearValue(t) ==
    IF t = <<>> THEN 0
    ELSE 10 * YearValue(SubSeq(t, 1, Len(t) - 1))
             + (CHOOSE d \in 1..10 : Digits[d] = t[Len(t)]) - 1

\* C7 as stated: get_pop_rasters() returns every matching path exactly once,
\* ordered so that the data years are non-decreasing.
C7_EveryPathOnceInYearOrder ==
    Discovered =>
        /\ {pop_rasters[i] : i \in 1..Len(pop_rasters)} =
              {f \in fs_files : Matches(f)}
        /\ \A i, j \in 1..Len(pop_rasters) :
              i < j =>
                  /\ pop_rasters[i] # pop_rasters[j]
                  /\ (IsYear(TokenOf(pop_rasters[i])) /\ IsYear(TokenOf(pop_rasters[j])))
                        => YearValue(TokenOf(pop_rasters[i]))
                              <= YearValue(TokenOf(pop_rasters[j]))

\* C1 as stated: when main() has completed, the file holds exactly one row
\* per (zone, year) pair, a row of a smaller year before a row of a larger
\* year, and the rows of one year in the order of the zone list.
C1_RowsYearAscendingThenZoneOrder ==
    pc = "done" =>
        /\ Len(csv_file) = 1 + Len(pop_rasters) * Len(features)
        /\ \A k \in 1..Len(features), j \in 1..Len(pop_rasters) :
              Cardinality({n \in 2..Len(csv_file) :
                              /\ csv_file[n].cells[1] = features[k].properties.ID_2
                              /\ csv_file[n].cells[3] = TokenOf(pop_rasters[j])}) = 1
        /\ \A m, n \in 2..Len(csv_file) :
              m < n =>
                  LET a == csv_file[m].cells
                      b == csv_file[n].cells
                  IN /\ (IsYear(a[3]) /\ IsYear(b[3])) =>
                            YearValue(a[3]) <= YearValue(b[3])
                     /\ a[3] = b[3] =>
                            \E k, l \in 1..Len(features) :
                                /\ k < l
                                /\ a[1] = features[k].properties.ID_2
                                /\ b[1] = features[l].properties.ID_2

====
